---- MODULE Spec2Model ----
(***************************************************************************)
(* Model of the per-team migration / restore orchestration of the          *)
(* sso-migration-sdk: MigrationService.migrateTeam and restoreFromBackup   *)
(* (src/src/services/migration-service.ts), the transport contract of      *)
(* UniformClient (src/src/client/uniform-client.ts) and the driver loops   *)
(* of the command-line entry point (src/unnamed/part_001).                 *)
(*                                                                         *)
(* One action is one step of the single thread of control between two      *)
(* suspension points: a transport call together with the handling of its   *)
(* response (or of the fault it raises), or a synchronous filesystem step. *)
(* The environment's answers (response status, fault, filesystem outcome)  *)
(* are the inputs, drawn with \E from small sets.                          *)
(***************************************************************************)
EXTENDS Integers, Sequences, FiniteSets, TLC

VARIABLES
  options,      \* MigrationService.options (after the constructor)
  restoreFrom,  \* driver: TRUE when --restore-from selects the restore mode
  teamConfigs,  \* driver: the configured team list
  teamIdx,      \* driver: index of the team in flight (1-based)
  results,      \* driver: results pushed so far
  pc,           \* position of the thread of control
  members,      \* the member sequence fetched (migrate) or loaded (restore)
  idx,          \* index of the member the for-loop is at (1-based)
  result,       \* the MigrationResult being built
  restoreResult,\* the RestoreResult being built
  calls,        \* history: transport calls and snapshot saves issued, in order
  backupFile    \* snapshot store: content of the backup file

vars == <<options, restoreFrom, teamConfigs, teamIdx, results, pc, members,
          idx, result, restoreResult, calls, backupFile>>

(***************************************************************************)
(* Bounds                                                                  *)
(***************************************************************************)
MaxMembers == 3

\* Members per team when the driver is given more than one team.
MaxTeamMembers == 1

(***************************************************************************)
(* Data                                                                    *)
(***************************************************************************)
\* An email is a sequence of characters (or of lower-case runs of them), so
\* that case folding is computed.
EmailA  == <<"a", "@", "x">>
EmailAu == <<"A", "@", "x">>
EmailBu == <<"B", "@", "x">>
EmailB  == <<"b", "@", "X">>
EmailArtemn == <<"artemn", "@", "uniform.dev">>

\* String.prototype.toLowerCase on the characters in use.
LowerChar(c) ==
  CASE c = "A" -> "a"
    [] c = "B" -> "b"
    [] c = "C" -> "c"
    [] c = "X" -> "x"
    [] OTHER -> c

toLowerCase(s) == [i \in DOMAIN s |-> LowerChar(s[i])]

\* ProjectRoles entries in Object.entries order; customPermissions is
\* optional: hasCustom = FALSE stands for an absent (undefined) field.
NoPerms == <<>>

ProjectEntry(id, roles, hasCustom, perms) ==
  [projectId |-> id, roles |-> roles, hasCustom |-> hasCustom,
   customPermissions |-> perms]

MemberPool ==
  << [subject |-> "s1", name |-> "Ann", email |-> EmailA, isTeamAdmin |-> TRUE,
      projects |-> <<>>],
     [subject |-> "s2", name |-> "Bob", email |-> EmailBu, isTeamAdmin |-> FALSE,
      projects |-> << ProjectEntry("p1", <<"editor">>, TRUE, <<"UPM_READ">>) >>],
     [subject |-> "s3", name |-> "Cy", email |-> EmailArtemn, isTeamAdmin |-> FALSE,
      projects |-> << ProjectEntry("p1", <<"admin">>, FALSE, NoPerms),
                      ProjectEntry("p2", <<"viewer">>, TRUE, NoPerms) >>] >>

Range(s) == {s[i] : i \in DOMAIN s}

\* Member sequences the vendor can return: subjects are unique in a team,
\* so a sequence is never longer than the pool.
MemberLists ==
  UNION {{s \in [1..n -> Range(MemberPool)] :
            \A i, j \in 1..n : i # j => s[i] # s[j]} : n \in 0..MaxMembers}

IgnoreLists == {<<>>, <<EmailAu>>, <<EmailB, EmailArtemn>>}

TeamIds == <<"t1">>

\* HTTP statuses the vendor answers with, and their reason phrases.
FetchStatuses == {200, 204, 403}
CallStatuses  == {200, 302, 403}

StatusText(s) ==
  CASE s = 200 -> "OK"
    [] s = 204 -> "No Content"
    [] s = 302 -> "Found"
    [] s = 403 -> "Forbidden"
    [] OTHER -> "Unknown Error"

Response(s) == [kind |-> "response", status |-> s, statusText |-> StatusText(s)]
Fault       == [kind |-> "fault", status |-> 0, statusText |-> "Network Error"]

FetchOutcomes == {Response(s) : s \in FetchStatuses} \cup {Fault}
CallOutcomes  == {Response(s) : s \in CallStatuses} \cup {Fault}

\* Outcome of the filesystem operations of backupMembers.
FsOutcomes == {"ok", "ENOSPC"}

\* An absent (undefined) optional value.
Undefined == <<>>

\* No team in flight yet.
NoTeam == ""

(***************************************************************************)
(* UniformClient                                                           *)
(***************************************************************************)
\* Variant: useCustom set whenever customPermissions is present.
convertMemberProjectsToInvites_presentIsCustom(member) ==
  [i \in DOMAIN member.projects |->
     [projectId      |-> member.projects[i].projectId,
      roles          |-> member.projects[i].roles,
      hasPermissions |-> member.projects[i].hasCustom,
      permissions    |-> member.projects[i].customPermissions,
      useCustom      |-> member.projects[i].hasCustom]]

\* convertMemberProjectsToInvites: one ProjectInvite per entry of projects.
convertMemberProjectsToInvites(member) ==
  [i \in DOMAIN member.projects |->
     [projectId      |-> member.projects[i].projectId,
      roles          |-> member.projects[i].roles,
      hasPermissions |-> member.projects[i].hasCustom,
      permissions    |-> member.projects[i].customPermissions,
      useCustom      |-> member.projects[i].hasCustom
                         /\ Len(member.projects[i].customPermissions) # 0]]

\* getMembers: a response that carries no member list (an HTTP error turned
\* into a result) has data = [].
GetMembersData(out, data) == IF out.status = 200 THEN data ELSE <<>>

(***************************************************************************)
(* MigrationService: construction and helpers                              *)
(***************************************************************************)
defaultIgnoredEmails == <<>>

\* The driver's normalisation of the command-line flags.
migrationOptions(cli) ==
  [cli EXCEPT !.markObsolete = cli.markObsolete /\ ~cli.deleteMembers]

\* The constructor appends the built-in ignore list to the supplied one.
Constructor(supplied) ==
  [supplied EXCEPT !.ignoredEmails = supplied.ignoredEmails \o defaultIgnoredEmails]

SuppliedOptions ==
  [markObsolete : BOOLEAN, deleteMembers : BOOLEAN, dryRun : BOOLEAN,
   backupEnabled : BOOLEAN, ignoredEmails : IgnoreLists]

EmptyResult(teamId) ==
  [teamId |-> teamId, membersFound |-> 0, membersMarkedObsolete |-> 0,
   membersDeleted |-> 0, invitationsSent |-> 0, skippedMembers |-> 0,
   backupCreated |-> FALSE, backupPath |-> Undefined, errors |-> <<>>]

EmptyRestoreResult ==
  [success |-> FALSE, membersRestored |-> 0, errors |-> <<>>]

\* Variant: the error list assigned instead of appended to.
PushError_assign(res, e) == [res EXCEPT !.errors = <<e>>]

\* Variant: the new error put in front of the list.
PushError_prepend(res, e) == [res EXCEPT !.errors = <<e>> \o @]

PushError(res, e) == [res EXCEPT !.errors = Append(@, e)]

\* Variant: the comparison without case folding.
shouldIgnoreMember_caseSensitive(member) ==
  \E i \in DOMAIN options.ignoredEmails :
     options.ignoredEmails[i] = member.email


shouldIgnoreMember(member) ==
  \E i \in DOMAIN options.ignoredEmails :
     toLowerCase(options.ignoredEmails[i]) = toLowerCase(member.email)

\* Variant: a 3xx status accepted as well.
IsSuccess_with3xx(status) == status >= 200 /\ status < 400

\* The status test shared by the three live operations.
IsSuccess(status) == status >= 200 /\ status < 300

\* Variant: any 2xx status accepted.
FetchOk_any2xx(out) == IsSuccess(out.status)

\* The test of the fetch response.
FetchOk(out) == out.status = 200

\* JSON.stringify of a member array: a key whose value is undefined is left
\* out of the object (keys lists the optional keys written).
JSONstringify(ms) ==
  [i \in DOMAIN ms |->
     [subject |-> ms[i].subject, name |-> ms[i].name, email |-> ms[i].email,
      isTeamAdmin |-> ms[i].isTeamAdmin,
      projects |->
        [j \in DOMAIN ms[i].projects |->
           [projectId |-> ms[i].projects[j].projectId,
            roles |-> ms[i].projects[j].roles,
            keys |-> IF ms[i].projects[j].hasCustom
                     THEN {"customPermissions"} ELSE {},
            customPermissions |->
              IF ms[i].projects[j].hasCustom
              THEN ms[i].projects[j].customPermissions ELSE <<>>]]]]

\* JSON.parse of such a text, read as Member[]: a key that is not in the
\* object reads as undefined.
JSONparse(text) ==
  [i \in DOMAIN text |->
     [subject |-> text[i].subject, name |-> text[i].name, email |-> text[i].email,
      isTeamAdmin |-> text[i].isTeamAdmin,
      projects |->
        [j \in DOMAIN text[i].projects |->
           ProjectEntry(text[i].projects[j].projectId,
                        text[i].projects[j].roles,
                        "customPermissions" \in text[i].projects[j].keys,
                        text[i].projects[j].customPermissions)]]]

\* Variant: the members of the ignore list left out of the backup.
backupMembers_withoutIgnored(teamId, ms, fs) ==
  LET Kept(m) == \A i \in DOMAIN options.ignoredEmails :
                    toLowerCase(options.ignoredEmails[i]) # toLowerCase(m.email)
  IN IF fs = "ok"
     THEN [success |-> TRUE, path |-> <<"team-", teamId, "-backup">>,
           error |-> Undefined, content |-> JSONstringify(SelectSeq(ms, Kept))]
     ELSE [success |-> FALSE, path |-> Undefined, error |-> <<fs>>,
           content |-> Undefined]

\* backupMembers: the member array is written as one JSON document; every
\* filesystem failure is caught and returned as a value.
backupMembers(teamId, ms, fs) ==
  IF fs = "ok"
  THEN [success |-> TRUE, path |-> <<"team-", teamId, "-backup">>,
        error |-> Undefined, content |-> JSONstringify(ms)]
  ELSE [success |-> FALSE, path |-> Undefined, error |-> <<fs>>,
        content |-> Undefined]

\* Variant: the short cut left out.
RestoreDryRun_never(opts) == FALSE

\* The dry-run short cut of restoreFromBackup.
RestoreDryRun(opts) == opts.dryRun

\* Variant: success taken as the absence of errors.
RestoreSuccess_noErrors(res) == Len(res.errors) = 0

\* The overall outcome of a live restore.
RestoreSuccess(res) == res.membersRestored > 0

\* Variant: the dry-run test forgotten.
AbortOnBackupFailure_anyDelete(opts) == opts.deleteMembers

\* Variant: the dry-run test inverted.
AbortOnBackupFailure_dryRunInverted(opts) == opts.deleteMembers /\ opts.dryRun

\* Variant: the abort left out.
AbortOnBackupFailure_never(opts) == FALSE

\* The test that makes a failed backup terminal for the team.
AbortOnBackupFailure(opts) == opts.deleteMembers /\ ~opts.dryRun

\* Variant: the gate never taken.
BackupGateTaken_never(opts, n) == FALSE

\* Variant: the gate taken in a live run only.
BackupGateTaken_liveOnly(opts, n) == opts.backupEnabled /\ n > 0 /\ ~opts.dryRun

\* The condition of the backup gate (line 89).
BackupGateTaken(opts, n) == opts.backupEnabled /\ n > 0

\* Variant: the two tests in the other order.
MutateStep_obsoleteFirst(opts) ==
  IF opts.markObsolete THEN "obsolete"
  ELSE IF opts.deleteMembers THEN "delete"
  ELSE "none"

\* processMember: which mutation precedes the invitation.
MutateStep(opts) ==
  IF opts.deleteMembers THEN "delete"
  ELSE IF opts.markObsolete THEN "obsolete"
  ELSE "none"

\* The handlers of the three try blocks.
CatchMember(res, member, out) ==
  PushError(res, <<"Error processing member ", member.email, out.statusText>>)

\* Variant: the outer handler rethrows.
CatchTeam_rethrow(res, teamId, out) == [result |-> res, pc |-> "thrown"]


CatchTeam(res, teamId, out) ==
  [result |-> PushError(res, <<"Error migrating team ", teamId, out.statusText>>),
   pc |-> "return"]

\* Variant: the outer handler of the restore only logs.
CatchRestore_silent(res, out) == [result |-> res, pc |-> "return"]


CatchRestore(res, out) ==
  [result |-> PushError(res, <<"Error restoring from backup: ", out.statusText>>),
   pc |-> "return"]

\* Variant: the member tried again after a fault.
AfterMemberCatch_retry(i, n) == i

\* Variant: the handler outside the loop, so a fault ends the loop.
AfterMemberCatch_break(i, n) == n + 1

\* The per-member catch sits inside the for-loop: the loop goes on.
AfterMemberCatch(i, n) == i + 1

(***************************************************************************)
(* The three operations.  Each returns the updated result, the transport   *)
(* call it issued (none in a dry run) and whether the call raised.         *)
(***************************************************************************)
Call(op, member, request, out) ==
  [op |-> op, about |-> member.subject, request |-> request,
   kind |-> out.kind, status |-> out.status]

Simulated(res) == [result |-> res, calls |-> <<>>, thrown |-> FALSE]

\* The request objects built by the three operations (lines 345-348,
\* 251-257, 301-308).  A name is the sequence of the pieces of the string.
deleteRequest(member, teamId) == [teamId |-> teamId, subject |-> member.subject]

\* Variant: the update request without the project list.
updateRequest_dropsProjects(member, teamId) ==
  [identity_subject |-> member.subject,
   teamId   |-> teamId,
   name     |-> <<"OBSOLETE - ", member.name>>,
   isAdmin  |-> member.isTeamAdmin,
   projects |-> <<>>]


updateRequest(member, teamId) ==
  [identity_subject |-> member.subject,
   teamId   |-> teamId,
   name     |-> <<"OBSOLETE - ", member.name>>,
   isAdmin  |-> member.isTeamAdmin,
   projects |-> convertMemberProjectsToInvites(member)]

\* Variant: the invitation issued under the obsolete name.
inviteRequest_obsoleteName(member, teamId) ==
  [email     |-> member.email,
   name      |-> IF options.markObsolete
                 THEN <<"OBSOLETE - ", member.name>> ELSE <<member.name>>,
   isAdmin   |-> member.isTeamAdmin,
   teamId    |-> teamId,
   projects  |-> convertMemberProjectsToInvites(member),
   sendEmail |-> TRUE]


inviteRequest(member, teamId) ==
  [email     |-> member.email,
   name      |-> <<member.name>>,
   isAdmin   |-> member.isTeamAdmin,
   teamId    |-> teamId,
   projects  |-> convertMemberProjectsToInvites(member),
   sendEmail |-> TRUE]

\* Variant: a failure status raised instead of recorded.
deleteLive_failureRaises(member, teamId, res, out) ==
  LET call == Call("deleteMember", member,
                   deleteRequest(member, teamId), out)
  IN IF out.kind = "fault" \/ ~IsSuccess(out.status)
     THEN [result |-> res, calls |-> <<call>>, thrown |-> TRUE]
     ELSE [result |-> [res EXCEPT !.membersDeleted = @ + 1],
           calls |-> <<call>>, thrown |-> FALSE]

\* deleteMember, live part (lines 345-362).
deleteLive(member, teamId, res, out) ==
  LET call == Call("deleteMember", member,
                   deleteRequest(member, teamId), out)
  IN IF out.kind = "fault"
     THEN [result |-> res, calls |-> <<call>>, thrown |-> TRUE]
     ELSE IF IsSuccess(out.status)
     THEN [result |-> [res EXCEPT !.membersDeleted = @ + 1],
           calls |-> <<call>>, thrown |-> FALSE]
     ELSE [result |-> PushError(res, <<"Failed to delete ", member.email,
                                       out.statusText>>),
           calls |-> <<call>>, thrown |-> FALSE]

deleteMember(member, teamId, res, out) ==
  IF options.dryRun
  THEN Simulated([res EXCEPT !.membersDeleted = @ + 1])
  ELSE deleteLive(member, teamId, res, out)

\* Variant: the counter incremented before the status is looked at.
obsoleteLive_countsAlways(member, teamId, res, out) ==
  LET call == Call("updateMember", member,
                   updateRequest(member, teamId), out)
      counted == [res EXCEPT !.membersMarkedObsolete = @ + 1]
  IN IF out.kind = "fault"
     THEN [result |-> res, calls |-> <<call>>, thrown |-> TRUE]
     ELSE IF IsSuccess(out.status)
     THEN [result |-> counted, calls |-> <<call>>, thrown |-> FALSE]
     ELSE [result |-> PushError(counted, <<"Failed to mark as obsolete ",
                                           member.email, out.statusText>>),
           calls |-> <<call>>, thrown |-> FALSE]

\* markMemberAsObsolete, live part (lines 248-274).
obsoleteLive(member, teamId, res, out) ==
  LET call == Call("updateMember", member,
                   updateRequest(member, teamId), out)
  IN IF out.kind = "fault"
     THEN [result |-> res, calls |-> <<call>>, thrown |-> TRUE]
     ELSE IF IsSuccess(out.status)
     THEN [result |-> [res EXCEPT !.membersMarkedObsolete = @ + 1],
           calls |-> <<call>>, thrown |-> FALSE]
     ELSE [result |-> PushError(res, <<"Failed to mark as obsolete ",
                                       member.email, out.statusText>>),
           calls |-> <<call>>, thrown |-> FALSE]

markMemberAsObsolete(member, teamId, res, out) ==
  IF options.dryRun
  THEN Simulated([res EXCEPT !.membersMarkedObsolete = @ + 1])
  ELSE obsoleteLive(member, teamId, res, out)

\* Variant: a failed invitation takes the deletion back out of the count.
inviteLive_rollsBack(member, teamId, res, out) ==
  LET call == Call("inviteMember", member,
                   inviteRequest(member, teamId), out)
      undone == [res EXCEPT !.membersDeleted = IF @ > 0 THEN @ - 1 ELSE @]
  IN IF out.kind = "fault"
     THEN [result |-> undone, calls |-> <<call>>, thrown |-> TRUE]
     ELSE IF IsSuccess(out.status)
     THEN [result |-> [res EXCEPT !.invitationsSent = @ + 1],
           calls |-> <<call>>, thrown |-> FALSE]
     ELSE [result |-> PushError(undone, <<"Failed to send invitation to ",
                                          member.email, out.statusText>>),
           calls |-> <<call>>, thrown |-> FALSE]

\* Variant: invitationsSent incremented whatever the status.
inviteLive_countsAlways(member, teamId, res, out) ==
  LET call == Call("inviteMember", member,
                   inviteRequest(member, teamId), out)
      counted == [res EXCEPT !.invitationsSent = @ + 1]
  IN IF out.kind = "fault"
     THEN [result |-> res, calls |-> <<call>>, thrown |-> TRUE]
     ELSE IF IsSuccess(out.status)
     THEN [result |-> counted, calls |-> <<call>>, thrown |-> FALSE]
     ELSE [result |-> PushError(counted, <<"Failed to send invitation to ",
                                           member.email, out.statusText>>),
           calls |-> <<call>>, thrown |-> FALSE]

\* Variant: the increment of invitationsSent forgotten.
inviteLive_noCount(member, teamId, res, out) ==
  LET call == Call("inviteMember", member,
                   inviteRequest(member, teamId), out)
  IN IF out.kind = "fault"
     THEN [result |-> res, calls |-> <<call>>, thrown |-> TRUE]
     ELSE IF IsSuccess(out.status)
     THEN [result |-> res, calls |-> <<call>>, thrown |-> FALSE]
     ELSE [result |-> PushError(res, <<"Failed to send invitation to ",
                                       member.email, out.statusText>>),
           calls |-> <<call>>, thrown |-> FALSE]

\* sendNewInvitation, live part (lines 301-325).
inviteLive(member, teamId, res, out) ==
  LET call == Call("inviteMember", member,
                   inviteRequest(member, teamId), out)
  IN IF out.kind = "fault"
     THEN [result |-> res, calls |-> <<call>>, thrown |-> TRUE]
     ELSE IF IsSuccess(out.status)
     THEN [result |-> [res EXCEPT !.invitationsSent = @ + 1],
           calls |-> <<call>>, thrown |-> FALSE]
     ELSE [result |-> PushError(res, <<"Failed to send invitation to ",
                                       member.email, out.statusText>>),
           calls |-> <<call>>, thrown |-> FALSE]

\* Variant: the dry-run test left out.
sendNewInvitation_noDryRun(member, teamId, res, out) ==
  inviteLive(member, teamId, res, out)


sendNewInvitation(member, teamId, res, out) ==
  IF options.dryRun
  THEN Simulated([res EXCEPT !.invitationsSent = @ + 1])
  ELSE inviteLive(member, teamId, res, out)

(***************************************************************************)
(* Initial state: the service is constructed, the driver has not started.  *)
(***************************************************************************)
\* What the backup file named by --restore-from can hold.
BackupFiles == {[kind |-> "absent", members |-> <<>>],
                [kind |-> "corrupt", members |-> <<>>]}
               \cup {[kind |-> "members", members |-> JSONstringify(list)] :
                       list \in MemberLists}

Init ==
  /\ \E cli \in SuppliedOptions, direct \in BOOLEAN :
        options = Constructor(IF direct THEN cli ELSE migrationOptions(cli))
  /\ restoreFrom \in BOOLEAN
  /\ backupFile \in (IF restoreFrom THEN BackupFiles
                     ELSE {[kind |-> "absent", members |-> <<>>]})
  /\ teamConfigs = TeamIds
  /\ teamIdx = 1
  /\ results = <<>>
  /\ pc = "driver"
  /\ members = <<>>
  /\ idx = 1
  /\ result = EmptyResult(NoTeam)
  /\ restoreResult = EmptyRestoreResult
  /\ calls = <<>>

\* The loop variables of the driver and of the for-loops.
teamConfig == teamConfigs[teamIdx]

\* Variant: the sequence walked from its end.
currentMember_reversed == members[Len(members) + 1 - idx]


currentMember == members[idx]

(***************************************************************************)
(* migrateTeam                                                             *)
(***************************************************************************)
\* Variant: one result object reused for every team.
NewMigrationResult_reused(teamId) == [result EXCEPT !.teamId = teamId]

\* The result object created at the start of migrateTeam (lines 58-67).
NewMigrationResult(teamId) == EmptyResult(teamId)

\* runMigration takes the next team; migrateTeam creates its result.
MigrateTeamStart ==
  /\ pc = "driver" /\ ~restoreFrom /\ teamIdx <= Len(teamConfigs)
  /\ result' = NewMigrationResult(teamConfig)
  /\ members' = <<>>
  /\ idx' = 1
  /\ pc' = "fetch"
  /\ UNCHANGED <<options, restoreFrom, teamConfigs, teamIdx, results,
                 restoreResult, calls, backupFile>>

\* The longest member list a team answers with.
FetchLimit == IF Len(teamConfigs) > 1 THEN MaxTeamMembers ELSE MaxMembers

\* The getMembers call and the handling of its answer (lines 76-86).
GetMembers ==
  /\ pc = "fetch"
  /\ \E out \in FetchOutcomes, data \in MemberLists :
       /\ out.status # 200 => data = <<>>
       /\ Len(data) <= FetchLimit
       /\ calls' = Append(calls, [op |-> "getMembers", about |-> teamConfig,
                                  request |-> [teamId |-> teamConfig],
                                  kind |-> out.kind, status |-> out.status])
       /\ IF out.kind = "fault"
          THEN /\ result' = CatchTeam(result, teamConfig, out).result
               /\ pc' = CatchTeam(result, teamConfig, out).pc
               /\ UNCHANGED members
          ELSE IF ~FetchOk(out)
          THEN /\ result' = PushError(result, <<"Failed to get members: ",
                                                out.statusText>>)
               /\ pc' = "return"
               /\ UNCHANGED members
          ELSE /\ members' = GetMembersData(out, data)
               /\ result' = [result EXCEPT !.membersFound = Len(members')]
               /\ pc' = IF BackupGateTaken(options, Len(members'))
                        THEN "backup" ELSE "loop"
  /\ UNCHANGED <<options, restoreFrom, teamConfigs, teamIdx, results, idx,
                 restoreResult, backupFile>>

\* The backup gate (lines 89-120).  backupMembers wraps its whole body in a
\* try block and returns {success: false}, so the handler of lines 108-119
\* has nothing to catch: a raising filesystem reaches this step as a value.
BackupGate ==
  /\ pc = "backup"
  /\ \E fs \in FsOutcomes :
       LET b == backupMembers(teamConfig, members, fs)
           r1 == [result EXCEPT !.backupCreated = b.success,
                                !.backupPath = b.path]
           r2 == PushError(r1, <<"Failed to create backup: ", b.error>>)
           r3 == PushError(r2,
                   <<"Migration aborted because backup failed and delete members is enabled">>)
       IN /\ calls' = Append(calls, [op |-> "save", about |-> teamConfig,
                                     request |-> [teamId |-> teamConfig,
                                                  members |-> members],
                                     kind |-> fs, status |-> 0])
          /\ backupFile' = IF b.success
                           THEN [kind |-> "members", members |-> b.content]
                           ELSE backupFile
          /\ IF b.success
             THEN result' = r1 /\ pc' = "loop"
             ELSE IF AbortOnBackupFailure(options)
             THEN result' = r3 /\ pc' = "return"
             ELSE result' = r2 /\ pc' = "loop"
  /\ UNCHANGED <<options, restoreFrom, teamConfigs, teamIdx, results, members,
                 idx, restoreResult>>

\* for-loop, ignore check (lines 126-130).
SkipIgnored ==
  /\ pc = "loop" /\ idx <= Len(members)
  /\ shouldIgnoreMember(currentMember)
  /\ result' = [result EXCEPT !.skippedMembers = @ + 1]
  /\ idx' = idx + 1
  /\ UNCHANGED <<options, restoreFrom, teamConfigs, teamIdx, results, pc,
                 members, restoreResult, calls, backupFile>>

\* processMember, mutate step: an operation that returns leads to the
\* invitation; one that raises is caught by the loop's handler.
Mutate(r) ==
  /\ calls' = calls \o r.calls
  /\ IF r.thrown
     THEN /\ result' = CatchMember(r.result, currentMember, Fault)
          /\ idx' = AfterMemberCatch(idx, Len(members))
          /\ pc' = "loop"
     ELSE /\ result' = r.result
          /\ idx' = idx
          /\ pc' = "invite"
  /\ UNCHANGED <<options, restoreFrom, teamConfigs, teamIdx, results, members,
                 restoreResult, backupFile>>

ProcessMemberDelete ==
  /\ pc = "loop" /\ idx <= Len(members)
  /\ ~shouldIgnoreMember(currentMember)
  /\ MutateStep(options) = "delete"
  /\ \E out \in CallOutcomes : Mutate(deleteMember(currentMember, teamConfig, result, out))

ProcessMemberObsolete ==
  /\ pc = "loop" /\ idx <= Len(members)
  /\ ~shouldIgnoreMember(currentMember)
  /\ MutateStep(options) = "obsolete"
  /\ \E out \in CallOutcomes :
       Mutate(markMemberAsObsolete(currentMember, teamConfig, result, out))

ProcessMemberNoMutation ==
  /\ pc = "loop" /\ idx <= Len(members)
  /\ ~shouldIgnoreMember(currentMember)
  /\ MutateStep(options) = "none"
  /\ pc' = "invite"
  /\ UNCHANGED <<options, restoreFrom, teamConfigs, teamIdx, results, members,
                 idx, result, restoreResult, calls, backupFile>>

\* processMember, re-invite step (line 221), and the end of the iteration.
ProcessMemberInvite ==
  /\ pc = "invite"
  /\ \E out \in CallOutcomes :
       LET r == sendNewInvitation(currentMember, teamConfig, result, out)
       IN /\ calls' = calls \o r.calls
          /\ result' = IF r.thrown THEN CatchMember(r.result, currentMember, Fault)
                       ELSE r.result
          /\ idx' = IF r.thrown THEN AfterMemberCatch(idx, Len(members))
                    ELSE idx + 1
          /\ pc' = "loop"
  /\ UNCHANGED <<options, restoreFrom, teamConfigs, teamIdx, results, members,
                 restoreResult, backupFile>>

LoopExit ==
  /\ pc = "loop" /\ idx > Len(members)
  /\ pc' = "return"
  /\ UNCHANGED <<options, restoreFrom, teamConfigs, teamIdx, results, members,
                 idx, result, restoreResult, calls, backupFile>>

\* migrateTeam returns; runMigration pushes the result and goes on (a fault
\* that escaped migrateTeam is logged by the driver and nothing is pushed).
MigrateTeamReturn ==
  /\ pc \in {"return", "thrown"} /\ ~restoreFrom
  /\ results' = IF pc = "return" THEN Append(results, result) ELSE results
  /\ teamIdx' = teamIdx + 1
  /\ pc' = "driver"
  /\ UNCHANGED <<options, restoreFrom, teamConfigs, members, idx, result,
                 restoreResult, calls, backupFile>>

(***************************************************************************)
(* restoreFromBackup                                                       *)
(***************************************************************************)
RestoreStart ==
  /\ pc = "driver" /\ restoreFrom /\ teamIdx <= Len(teamConfigs)
  /\ restoreResult' = EmptyRestoreResult
  /\ members' = <<>>
  /\ idx' = 1
  /\ pc' = "load"
  /\ UNCHANGED <<options, restoreFrom, teamConfigs, teamIdx, results, result,
                 calls, backupFile>>

\* existsSync, readFileSync, JSON.parse and the dry-run short cut
\* (lines 386-405); a parse failure reaches the outer handler.
LoadBackup ==
  /\ pc = "load"
  /\ IF backupFile.kind = "absent"
     THEN /\ restoreResult' = PushError(restoreResult, <<"Backup file not found">>)
          /\ pc' = "return"
          /\ UNCHANGED members
     ELSE IF backupFile.kind = "corrupt"
     THEN /\ restoreResult' =
               CatchRestore(restoreResult, [statusText |-> "Unexpected token"]).result
          /\ pc' = CatchRestore(restoreResult, [statusText |-> "Unexpected token"]).pc
          /\ UNCHANGED members
     ELSE /\ members' = JSONparse(backupFile.members)
          /\ IF RestoreDryRun(options)
             THEN /\ restoreResult' = [restoreResult EXCEPT !.success = TRUE]
                  /\ pc' = "return"
             ELSE /\ pc' = "restoreLoop"
                  /\ UNCHANGED restoreResult
  /\ idx' = 1
  /\ UNCHANGED <<options, restoreFrom, teamConfigs, teamIdx, results, result,
                 calls, backupFile>>

RestoreSkipIgnored ==
  /\ pc = "restoreLoop" /\ idx <= Len(members)
  /\ shouldIgnoreMember(currentMember)
  /\ idx' = idx + 1
  /\ UNCHANGED <<options, restoreFrom, teamConfigs, teamIdx, results, pc,
                 members, result, restoreResult, calls, backupFile>>

\* The invitation of one loaded member (lines 417-433): the MigrationResult
\* handed to sendNewInvitation is a throwaway object.
RestoreMember ==
  /\ pc = "restoreLoop" /\ idx <= Len(members)
  /\ ~shouldIgnoreMember(currentMember)
  /\ \E out \in CallOutcomes :
       LET r == sendNewInvitation(currentMember, teamConfig,
                                  EmptyResult(teamConfig), out)
       IN /\ calls' = calls \o r.calls
          /\ restoreResult' =
               IF r.thrown
               THEN PushError(restoreResult,
                      <<"Error restoring member ", currentMember.email,
                        Fault.statusText>>)
               ELSE [restoreResult EXCEPT !.membersRestored = @ + 1]
  /\ idx' = idx + 1
  /\ UNCHANGED <<options, restoreFrom, teamConfigs, teamIdx, results, pc,
                 members, result, backupFile>>

RestoreLoopExit ==
  /\ pc = "restoreLoop" /\ idx > Len(members)
  /\ restoreResult' = [restoreResult EXCEPT !.success = RestoreSuccess(restoreResult)]
  /\ pc' = "return"
  /\ UNCHANGED <<options, restoreFrom, teamConfigs, teamIdx, results, members,
                 idx, result, calls, backupFile>>

\* restoreFromBackup returns; runRestore pushes {teamId, ...result}.
RestoreReturn ==
  /\ pc \in {"return", "thrown"} /\ restoreFrom
  /\ results' = IF pc = "return"
                THEN Append(results, [teamId |-> teamConfig,
                                      success |-> restoreResult.success,
                                      membersRestored |-> restoreResult.membersRestored,
                                      errors |-> restoreResult.errors])
                ELSE results
  /\ teamIdx' = teamIdx + 1
  /\ pc' = "driver"
  /\ UNCHANGED <<options, restoreFrom, teamConfigs, members, idx, result,
                 restoreResult, calls, backupFile>>

(***************************************************************************)
(* Specification                                                           *)
(***************************************************************************)
Next ==
  \/ MigrateTeamStart
  \/ GetMembers
  \/ BackupGate
  \/ SkipIgnored
  \/ ProcessMemberDelete
  \/ ProcessMemberObsolete
  \/ ProcessMemberNoMutation
  \/ ProcessMemberInvite
  \/ LoopExit
  \/ MigrateTeamReturn
  \/ RestoreStart
  \/ LoadBackup
  \/ RestoreSkipIgnored
  \/ RestoreMember
  \/ RestoreLoopExit
  \/ RestoreReturn

Spec == Init /\ [][Next]_vars

\* The single thread of control always takes its next step: every transport
\* call and every filesystem operation returns or raises.
SpecFair == Spec /\ WF_vars(Next)

(***************************************************************************)
(* A migration followed by a restore of the backup it wrote: the tool is   *)
(* run a second time, with --restore-from naming the file saved by the     *)
(* first run.  The new process starts from fresh state; of the history     *)
(* only the save that produced the file is kept.                           *)
(***************************************************************************)
IsSuccessfulSave(c) == c.op = "save" /\ c.kind = "ok"

RunRestoreProcess ==
  /\ pc = "driver" /\ ~restoreFrom /\ teamIdx > Len(teamConfigs)
  /\ backupFile.kind = "members"
  /\ \E cli \in SuppliedOptions : options' = Constructor(migrationOptions(cli))
  /\ restoreFrom' = TRUE
  /\ teamIdx' = 1
  /\ results' = <<>>
  /\ members' = <<>>
  /\ idx' = 1
  /\ result' = EmptyResult(NoTeam)
  /\ restoreResult' = EmptyRestoreResult
  /\ calls' = SelectSeq(calls, IsSuccessfulSave)
  /\ pc' = "driver"
  /\ UNCHANGED <<teamConfigs, backupFile>>

InitRoundTrip == Init /\ ~restoreFrom /\ options.backupEnabled

NextRoundTrip == Next \/ RunRestoreProcess

SpecRoundTrip == InitRoundTrip /\ [][NextRoundTrip]_vars

(***************************************************************************)
(* A migration of two teams: runMigration walks the configured list and    *)
(* calls migrateTeam once per entry.  The live runs are those of the       *)
(* delete mode with backup, where a team can be aborted; the dry runs      *)
(* cover every mode.                                                       *)
(***************************************************************************)
TwoTeams == <<"t1", "t2">>

InitTeams ==
  /\ \E cli \in SuppliedOptions :
        /\ cli.ignoredEmails = <<EmailAu>>
        /\ ~cli.dryRun => (cli.deleteMembers /\ cli.backupEnabled)
        /\ options = Constructor(migrationOptions(cli))
  /\ restoreFrom = FALSE
  /\ backupFile = [kind |-> "absent", members |-> <<>>]
  /\ teamConfigs = TwoTeams
  /\ teamIdx = 1
  /\ results = <<>>
  /\ pc = "driver"
  /\ members = <<>>
  /\ idx = 1
  /\ result = EmptyResult(NoTeam)
  /\ restoreResult = EmptyRestoreResult
  /\ calls = <<>>

NextTeams ==
  \/ MigrateTeamStart
  \/ GetMembers
  \/ BackupGate
  \/ SkipIgnored
  \/ ProcessMemberDelete
  \/ ProcessMemberObsolete
  \/ ProcessMemberNoMutation
  \/ ProcessMemberInvite
  \/ LoopExit
  \/ MigrateTeamReturn

SpecTeams == InitTeams /\ [][NextTeams]_vars

(***************************************************************************)
(* Vocabulary of the properties                                            *)
(***************************************************************************)
InMigrate == ~restoreFrom
Live      == ~options.dryRun

MutateOps   == {"deleteMember", "updateMember"}
MutatingOps == MutateOps \cup {"inviteMember"}

\* The calls issued for the team whose result is being built.
TeamCalls == {i \in DOMAIN calls : calls[i].request.teamId = result.teamId}

CallsAbout(subject, ops) ==
  {i \in TeamCalls : calls[i].op \in ops /\ calls[i].about = subject}

FetchCalls == {i \in TeamCalls : calls[i].op = "getMembers"}
SaveCalls  == {i \in TeamCalls : calls[i].op = "save"}

FetchSucceeded == \E i \in FetchCalls : calls[i].kind = "response" /\ calls[i].status = 200
FetchRejected  == \E i \in FetchCalls : calls[i].kind = "response" /\ calls[i].status # 200
FetchFaulted   == \E i \in FetchCalls : calls[i].kind = "fault"
SaveFailed     == \E i \in SaveCalls : calls[i].kind # "ok"
SaveSucceededBefore(i) == \E j \in SaveCalls : j < i /\ calls[j].kind = "ok"

AbortError ==
  <<"Migration aborted because backup failed and delete members is enabled">>

\* Equality of two emails ignoring case.
SameIgnoringCase(a, b) ==
  /\ Len(a) = Len(b)
  /\ \A i \in 1..Len(a) : LowerChar(a[i]) = LowerChar(b[i])

MatchesIgnoreSet(m) ==
  \E e \in Range(options.ignoredEmails) : SameIgnoringCase(e, m.email)

\* Members the for-loop has finished with.
Processed == {k \in DOMAIN members : k < idx}
NotIgnored(S) == {k \in S : ~MatchesIgnoreSet(members[k])}

Counter(r, op) ==
  CASE op = "deleteMember" -> r.membersDeleted
    [] op = "updateMember" -> r.membersMarkedObsolete
    [] op = "inviteMember" -> r.invitationsSent

MemberFaultErrors ==
  {e \in DOMAIN result.errors : result.errors[e][1] = "Error processing member "}

(***************************************************************************)
(* C1: when backup is enabled, a member was fetched, deleteMembers is set, *)
(* the run is live and the backup save fails, no deleteMember,             *)
(* updateMember or inviteMember call is issued for the team and the        *)
(* result's errors contain the abort error.                                *)
(***************************************************************************)
C1_BackupFailureAborts ==
  (/\ InMigrate /\ options.backupEnabled /\ Len(members) > 0
   /\ options.deleteMembers /\ Live /\ SaveFailed)
  => /\ \A i \in TeamCalls : calls[i].op \notin MutatingOps
     /\ AbortError \in Range(result.errors)
     /\ pc \in {"return", "driver"}

C1_Witness ==
  /\ InMigrate /\ options.backupEnabled /\ Len(members) = MaxMembers
  /\ options.deleteMembers /\ Live /\ SaveFailed
  /\ pc = "return" /\ AbortError \in Range(result.errors)

(***************************************************************************)
(* C2 (as stated): in every live run of migrateTeam, under every           *)
(* combination of options including backup.enabled = false, a deleteMember *)
(* call is issued only after a backup save of the team has succeeded.      *)
(***************************************************************************)
C2_DeleteOnlyAfterBackup_AnyOptions ==
  (InMigrate /\ Live)
  => \A i \in TeamCalls :
       calls[i].op = "deleteMember"
       => SaveSucceededBefore(i) /\ result.backupCreated

(***************************************************************************)
(* C2 (amended): in every live run of migrateTeam with backup.enabled =    *)
(* true, a deleteMember call is issued only after a backup save of the     *)
(* team has succeeded earlier in the run (backupCreated = true).           *)
(***************************************************************************)
C2_DeleteOnlyAfterBackup ==
  (InMigrate /\ Live /\ options.backupEnabled)
  => \A i \in TeamCalls :
       calls[i].op = "deleteMember"
       => SaveSucceededBefore(i) /\ result.backupCreated

C2_Witness ==
  /\ InMigrate /\ Live /\ options.backupEnabled
  /\ \E i \in TeamCalls : calls[i].op = "deleteMember" /\ SaveSucceededBefore(i)

(***************************************************************************)
(* C3: a fetched member whose email equals, ignoring case, an entry of the *)
(* ignore set gets no deleteMember, updateMember or inviteMember call, and *)
(* skippedMembers counts each such member exactly once (at the end of a    *)
(* run that was not aborted it is the number of such members).             *)
(***************************************************************************)
C3_IgnoredMembersUntouched ==
  InMigrate
  => /\ \A i \in TeamCalls, k \in DOMAIN members :
          (calls[i].op \in MutatingOps /\ calls[i].about = members[k].subject)
          => ~MatchesIgnoreSet(members[k])
     /\ result.skippedMembers = Cardinality(Processed \ NotIgnored(Processed))
     /\ (pc = "return" /\ FetchSucceeded /\ AbortError \notin Range(result.errors))
        => result.skippedMembers =
             Cardinality(DOMAIN members \ NotIgnored(DOMAIN members))

C3_Witness ==
  /\ InMigrate /\ Live /\ pc = "return"
  /\ Len(members) = MaxMembers
  /\ result.skippedMembers = 2
  /\ \E k \in DOMAIN members, e \in Range(options.ignoredEmails) :
        SameIgnoringCase(e, members[k].email) /\ e # members[k].email
  /\ \E i \in TeamCalls : calls[i].op = "inviteMember"

(***************************************************************************)
(* C4: with dryRun = true migrateTeam issues no deleteMember, updateMember *)
(* or inviteMember call, and after a successful fetch the returned         *)
(* counters are those of a simulated full pass over the non-ignored        *)
(* members, whatever the outcome of the backup save.                       *)
(***************************************************************************)
C4_DryRunSimulates ==
  (InMigrate /\ options.dryRun)
  => /\ \A i \in TeamCalls : calls[i].op \notin MutatingOps
     /\ (pc = "return" /\ FetchSucceeded)
        => LET n == Cardinality(NotIgnored(DOMAIN members))
           IN /\ result.invitationsSent = n
              /\ options.deleteMembers => result.membersDeleted = n
              /\ (options.markObsolete /\ ~options.deleteMembers)
                 => result.membersMarkedObsolete = n

C4_Witness ==
  /\ InMigrate /\ options.dryRun /\ pc = "return" /\ SaveFailed
  /\ options.deleteMembers
  /\ result.membersDeleted = 2 /\ result.invitationsSent = 2
  /\ result.skippedMembers = 1

(***************************************************************************)
(* C5: with deleteMembers = true, also when markObsolete = true is given   *)
(* to the service, no updateMember call is issued and                      *)
(* membersMarkedObsolete stays 0; no member is both deleted and marked.    *)
(***************************************************************************)
C5_DeletionWins ==
  InMigrate
  => /\ options.deleteMembers
        => /\ \A i \in TeamCalls : calls[i].op # "updateMember"
           /\ result.membersMarkedObsolete = 0
     /\ \A k \in DOMAIN members :
          Cardinality(CallsAbout(members[k].subject, MutateOps)) <= 1
     /\ ~(result.membersDeleted > 0 /\ result.membersMarkedObsolete > 0)

C5_Witness ==
  /\ InMigrate /\ Live /\ options.deleteMembers /\ options.markObsolete
  /\ pc = "return" /\ result.membersDeleted >= 1
  /\ \E i \in TeamCalls : calls[i].op = "deleteMember"

(***************************************************************************)
(* C6: a listMembers response whose status is not 200 (other 2xx values    *)
(* included) makes migrateTeam return membersFound = 0, every other        *)
(* counter 0, backupCreated = false and exactly one error 'Failed to get   *)
(* members: <statusText>', without any save, delete, update or invite.     *)
(***************************************************************************)
C6_FetchRejected ==
  (InMigrate /\ FetchRejected)
  => /\ pc \in {"return", "driver"}
     /\ \E i \in FetchCalls :
          result = [EmptyResult(result.teamId) EXCEPT
                      !.errors = << <<"Failed to get members: ",
                                      StatusText(calls[i].status)>> >>]
     /\ TeamCalls = FetchCalls
     /\ Cardinality(FetchCalls) = 1

C6_Witness ==
  /\ InMigrate /\ pc = "return"
  /\ \E i \in FetchCalls : calls[i].kind = "response" /\ calls[i].status = 204
  /\ Len(result.errors) = 1

(***************************************************************************)
(* C7 (as stated): every non-ignored member processed by migrateTeam has   *)
(* its re-invite step attempted after the mutate step, whatever the mutate *)
(* step was and whatever its outcome.                                      *)
(***************************************************************************)
C7_InviteAfterAnyMutateOutcome ==
  (InMigrate /\ Live)
  => \A k \in NotIgnored(Processed) :
       CallsAbout(members[k].subject, {"inviteMember"}) # {}

(***************************************************************************)
(* C7 (amended): for every non-ignored member processed by migrateTeam,    *)
(* the re-invite step is attempted after the mutate step whatever the      *)
(* mutate step was (delete, mark-obsolete or none) whenever the mutate     *)
(* call returned a response, a failure status included; only a mutate call *)
(* that raises a fault ends the member's processing without an invitation. *)
(***************************************************************************)
C7_InviteAfterReturnedMutate ==
  (InMigrate /\ Live)
  => /\ \A k \in NotIgnored(Processed) :
          LET mut == CallsAbout(members[k].subject, MutateOps)
              inv == CallsAbout(members[k].subject, {"inviteMember"})
          IN /\ (inv # {}) <=> (\A i \in mut : calls[i].kind = "response")
             /\ \A i \in mut, j \in inv : i < j
             /\ (MutateStep(options) # "none" /\ inv # {}) => mut # {}
     /\ \A i \in TeamCalls :
          (calls[i].op \in MutateOps /\ calls[i].kind = "response"
           /\ CallsAbout(calls[i].about, {"inviteMember"}) = {})
          => (pc = "invite" /\ currentMember.subject = calls[i].about)

C7_Witness ==
  /\ InMigrate /\ Live /\ pc = "return"
  /\ \E k \in DOMAIN members :
       /\ \E i \in CallsAbout(members[k].subject, MutateOps) :
            calls[i].kind = "response" /\ calls[i].status = 403
       /\ CallsAbout(members[k].subject, {"inviteMember"}) # {}
  /\ \E k \in DOMAIN members :
       /\ \E i \in CallsAbout(members[k].subject, MutateOps) :
            calls[i].kind = "fault"
       /\ CallsAbout(members[k].subject, {"inviteMember"}) = {}

(***************************************************************************)
(* C8: a fault raised while processing one member is caught inside the     *)
(* loop, adds exactly one 'Error processing member' error, and does not    *)
(* stop the loop: every later member of the fetched list is processed.     *)
(***************************************************************************)
C8_MemberFaultIsolated ==
  (InMigrate /\ Live)
  => /\ Cardinality(MemberFaultErrors) =
          Cardinality({i \in TeamCalls : calls[i].op \in MutatingOps
                                         /\ calls[i].kind = "fault"})
     /\ \A i \in TeamCalls :
          (calls[i].op \in MutatingOps /\ calls[i].kind = "fault")
          => \E k \in Processed, e \in MemberFaultErrors :
                /\ members[k].subject = calls[i].about
                /\ result.errors[e] = <<"Error processing member ",
                                        members[k].email, Fault.statusText>>
     /\ (pc = "return" /\ FetchSucceeded /\ AbortError \notin Range(result.errors))
        => /\ idx = Len(members) + 1
           /\ \A k \in NotIgnored(DOMAIN members) :
                CallsAbout(members[k].subject, MutatingOps) # {}

C8_Witness ==
  /\ InMigrate /\ Live /\ pc = "return" /\ Len(members) = MaxMembers
  /\ \E i \in CallsAbout(members[1].subject, MutatingOps) : calls[i].kind = "fault"
  /\ \A k \in 2..Len(members) :
       \E i \in CallsAbout(members[k].subject, {"inviteMember"}) :
          calls[i].kind = "response"

(***************************************************************************)
(* C9: in live mode a deleteMember, updateMember or inviteMember call that *)
(* returns a success status increments its own counter by exactly 1 and    *)
(* appends no error; one that returns a failure status leaves its counter  *)
(* unchanged and appends exactly one error; no call changes a counter      *)
(* other than its own.                                                     *)
(***************************************************************************)
C9_Step ==
  (InMigrate /\ Len(calls') = Len(calls) + 1
   /\ calls'[Len(calls')].op \in MutatingOps
   /\ calls'[Len(calls')].kind = "response")
  => LET c == calls'[Len(calls')]
     IN /\ c.status \in 200..299
           => /\ Counter(result', c.op) = Counter(result, c.op) + 1
              /\ result'.errors = result.errors
        /\ c.status \notin 200..299
           => /\ Counter(result', c.op) = Counter(result, c.op)
              /\ Len(result'.errors) = Len(result.errors) + 1
              /\ SubSeq(result'.errors, 1, Len(result.errors)) = result.errors
        /\ \A op \in MutatingOps \ {c.op} :
             Counter(result', op) = Counter(result, op)
        /\ result'.skippedMembers = result.skippedMembers
        /\ result'.membersFound = result.membersFound

C9_CounterOnSuccessOnly == [][C9_Step]_vars

C9_Witness ==
  /\ InMigrate /\ Live
  /\ \E i, j \in TeamCalls :
       /\ calls[i].op = "updateMember" /\ calls[i].status = 200
       /\ calls[j].op = "updateMember" /\ calls[j].status = 403
  /\ result.membersMarkedObsolete = 1

(***************************************************************************)
(* C10: migrateTeam and restoreFromBackup never propagate a fault: a       *)
(* transport fault during the initial fetch, or a fault outside the        *)
(* per-member loop of the restore, is caught and turned into one error     *)
(* entry, and the partially filled result is still returned to the driver. *)
(***************************************************************************)
C10_NoFaultPropagates ==
  /\ pc # "thrown"
  /\ (pc = "driver") => Len(results) = teamIdx - 1
  /\ (InMigrate /\ FetchFaulted)
     => /\ pc \in {"return", "driver"}
        /\ result = [EmptyResult(result.teamId) EXCEPT
                       !.errors = << <<"Error migrating team ", result.teamId,
                                       Fault.statusText>> >>]
  /\ (restoreFrom /\ backupFile.kind = "corrupt" /\ pc = "return")
     => /\ restoreResult.errors[1][1] = "Error restoring from backup: "
        /\ Len(restoreResult.errors) = 1

C10_Witness ==
  /\ InMigrate /\ FetchFaulted /\ pc = "driver"
  /\ Len(results) = 1 /\ Len(results[1].errors) = 1

(***************************************************************************)
(* C11: when the backup save fails and the options are not deleteMembers   *)
(* in a live run (mark-obsolete mode, no-mutation mode, any dry run), the  *)
(* failure is recorded in errors with backupCreated = false and every      *)
(* fetched member is still processed (ignore check, mutate, invite).       *)
(***************************************************************************)
C11_BackupFailureNonFatal ==
  (InMigrate /\ SaveFailed /\ ~(options.deleteMembers /\ Live))
  => /\ ~result.backupCreated
     /\ result.backupPath = Undefined
     /\ \E i \in SaveCalls :
          result.errors[1] = <<"Failed to create backup: ", <<calls[i].kind>> >>
     /\ AbortError \notin Range(result.errors)
     /\ pc \in {"loop", "invite", "return", "driver"}
     /\ result.skippedMembers = Cardinality(Processed \ NotIgnored(Processed))
     /\ pc \in {"return", "driver"}
        => /\ idx = Len(members) + 1
           /\ Live => \A k \in NotIgnored(DOMAIN members) :
                        CallsAbout(members[k].subject, MutatingOps) # {}
           /\ options.dryRun
              => result.invitationsSent = Cardinality(NotIgnored(DOMAIN members))

C11_Witness ==
  /\ InMigrate /\ SaveFailed /\ pc = "return"
  /\ options.dryRun /\ options.deleteMembers
  /\ Len(members) = MaxMembers /\ result.membersDeleted >= 2
  /\ Len(result.errors) = 1

(***************************************************************************)
(* C12: restore round trip.  When the N members saved by the backup step   *)
(* are replayed by restoreFromBackup with dryRun = false and an empty      *)
(* ignore set and every invite call succeeds, exactly N invite calls are   *)
(* issued, one per saved member in saved order, membersRestored = N and,   *)
(* for N >= 1, success = true.                                             *)
(***************************************************************************)
SavedMembers == calls[1].request.members
InviteCalls  == SubSeq(calls, 2, Len(calls))

RoundTripDone ==
  /\ restoreFrom /\ Live /\ options.ignoredEmails = <<>>
  /\ pc = "return"
  /\ Len(calls) >= 1 /\ calls[1].op = "save"
  /\ \A i \in 2..Len(calls) :
       calls[i].kind = "response" /\ calls[i].status \in 200..299

C12_RestoreRoundTrip ==
  RoundTripDone
  => /\ Len(InviteCalls) = Len(SavedMembers)
     /\ \A k \in DOMAIN InviteCalls :
          /\ InviteCalls[k].op = "inviteMember"
          /\ InviteCalls[k].about = SavedMembers[k].subject
          /\ InviteCalls[k].request.email = SavedMembers[k].email
          /\ InviteCalls[k].request.projects =
               convertMemberProjectsToInvites(SavedMembers[k])
     /\ members = SavedMembers
     /\ restoreResult.membersRestored = Len(SavedMembers)
     /\ Len(SavedMembers) >= 1 => restoreResult.success

C12_Witness ==
  /\ RoundTripDone
  /\ Len(SavedMembers) = MaxMembers
  /\ restoreResult.membersRestored = MaxMembers
  /\ restoreResult.success

(***************************************************************************)
(* Vocabulary of the restore properties                                    *)
(***************************************************************************)
LiveRestore == restoreFrom /\ Live /\ backupFile.kind = "members"

InviteIndexes == {i \in DOMAIN calls : calls[i].op = "inviteMember"}

\* An invitation that failed: the call raised, or answered with an error
\* status.
FailedInvites ==
  {i \in InviteIndexes : calls[i].kind = "fault" \/ calls[i].status >= 400}

\* An invitation the vendor did not reject (2xx or 3xx).
AcceptedInvites ==
  {i \in InviteIndexes : calls[i].kind = "response" /\ calls[i].status < 400}

(***************************************************************************)
(* C13: in a live restore, every non-ignored member whose invitation fails *)
(* (failure status or fault) leaves one error entry for that member in the *)
(* RestoreResult's errors, and the loop goes on with the next member.      *)
(***************************************************************************)
C13_RestoreFailuresRecorded ==
  (LiveRestore /\ pc \in {"restoreLoop", "return"})
  => /\ Len(restoreResult.errors) = Cardinality(FailedInvites)
     /\ pc = "return" => idx = Len(members) + 1

(***************************************************************************)
(* C14: in a live restore membersRestored counts only the members whose    *)
(* invite call returned a success status, success is true iff at least one *)
(* member was restored, and a restore whose invite calls all return a      *)
(* failure status yields membersRestored = 0 and success = false.          *)
(***************************************************************************)
C14_RestoredCountsSuccesses ==
  (LiveRestore /\ pc = "return")
  => /\ restoreResult.membersRestored <= Cardinality(AcceptedInvites)
     /\ restoreResult.success <=> (restoreResult.membersRestored > 0)
     /\ AcceptedInvites = {}
        => restoreResult.membersRestored = 0 /\ ~restoreResult.success

(***************************************************************************)
(* C15: a live restore of a backup holding no member, or only members of   *)
(* the ignore set, issues no invite call and returns membersRestored = 0,  *)
(* success = false and errors = [].                                        *)
(***************************************************************************)
C15_EmptyRestore ==
  (LiveRestore /\ pc \in {"restoreLoop", "return", "driver"}
   /\ (pc = "driver" => Len(results) = 1)
   /\ members = JSONparse(backupFile.members)
   /\ NotIgnored(DOMAIN members) = {})
  => /\ InviteIndexes = {}
     /\ pc = "return" => restoreResult = EmptyRestoreResult
     /\ pc = "driver" /\ Len(results) = 1
        => /\ ~results[1].success
           /\ results[1].membersRestored = 0
           /\ results[1].errors = <<>>

C15_Witness ==
  /\ LiveRestore /\ pc = "return"
  /\ Len(members) = 2 /\ NotIgnored(DOMAIN members) = {}
  /\ restoreResult = EmptyRestoreResult

(***************************************************************************)
(* C16: when the snapshot cannot be loaded (no such path, or content that  *)
(* does not parse), restoreFromBackup returns success = false,             *)
(* membersRestored = 0 and exactly one error, and issues no invite call,   *)
(* in dry-run and in live mode alike.                                      *)
(***************************************************************************)
C16_UnloadableSnapshot ==
  (restoreFrom /\ backupFile.kind \in {"absent", "corrupt"})
  => /\ pc \in {"driver", "load", "return"}
     /\ InviteIndexes = {}
     /\ members = <<>>
     /\ pc = "return"
        => /\ ~restoreResult.success
           /\ restoreResult.membersRestored = 0
           /\ Len(restoreResult.errors) = 1

C16_Witness ==
  /\ restoreFrom /\ backupFile.kind = "corrupt" /\ options.dryRun
  /\ pc = "return" /\ Len(restoreResult.errors) = 1

(***************************************************************************)
(* C17: a dry-run restore of a loadable snapshot returns success = true,   *)
(* membersRestored = 0 and errors = [] whatever the snapshot holds, issues *)
(* no invite call and never enters the per-member loop (no ignore filter,  *)
(* no counting).                                                           *)
(***************************************************************************)
C17_RestoreDryRunCoarse ==
  (restoreFrom /\ options.dryRun /\ backupFile.kind = "members")
  => /\ pc # "restoreLoop"
     /\ InviteIndexes = {}
     /\ pc = "return"
        => restoreResult = [EmptyRestoreResult EXCEPT !.success = TRUE]

C17_Witness ==
  /\ restoreFrom /\ options.dryRun /\ backupFile.kind = "members"
  /\ pc = "return" /\ Len(members) = MaxMembers
  /\ NotIgnored(DOMAIN members) # DOMAIN members
  /\ restoreResult.success /\ restoreResult.membersRestored = 0

(***************************************************************************)
(* C18: for a team of n members of which k match the ignore set, with      *)
(* markObsolete = true, deleteMembers = false, dryRun = false and every    *)
(* call succeeding, migrateTeam returns membersFound = n, skippedMembers = *)
(* k, membersMarkedObsolete = n - k, invitationsSent = n - k,              *)
(* membersDeleted = 0 and errors = [].                                     *)
(***************************************************************************)
AllCallsSucceeded ==
  /\ FetchSucceeded
  /\ ~SaveFailed
  /\ \A i \in TeamCalls :
       calls[i].op \in MutatingOps
       => calls[i].kind = "response" /\ calls[i].status \in 200..299

C18_MarkObsoleteScenario ==
  (/\ InMigrate /\ pc = "return" /\ Live
   /\ options.markObsolete /\ ~options.deleteMembers
   /\ AllCallsSucceeded)
  => LET n == Len(members)
         k == Cardinality(DOMAIN members \ NotIgnored(DOMAIN members))
     IN /\ result.membersFound = n
        /\ result.skippedMembers = k
        /\ result.membersMarkedObsolete = n - k
        /\ result.invitationsSent = n - k
        /\ result.membersDeleted = 0
        /\ result.errors = <<>>

C18_Witness ==
  /\ InMigrate /\ pc = "return" /\ Live
  /\ options.markObsolete /\ ~options.deleteMembers
  /\ AllCallsSucceeded
  /\ result.membersFound = 3 /\ result.skippedMembers = 1
  /\ result.membersMarkedObsolete = 2 /\ result.invitationsSent = 2

(***************************************************************************)
(* C19: the effective ignore set is the union of the supplied emails and a *)
(* built-in default set, and the built-in email artemn@uniform.dev is      *)
(* always ignored: a member with that email gets no mutate and no invite   *)
(* call, in migrateTeam and in a live restore, also when no email is       *)
(* supplied.                                                               *)
(***************************************************************************)
BuiltInIgnored == {EmailArtemn}

C19_BuiltInAlwaysIgnored ==
  \A k \in Processed :
    (\E e \in BuiltInIgnored : SameIgnoringCase(e, members[k].email))
    => /\ BuiltInIgnored \subseteq Range(options.ignoredEmails)
       /\ \A i \in DOMAIN calls :
            calls[i].op \in MutatingOps => calls[i].about # members[k].subject

(***************************************************************************)
(* C20 (as stated): each terminal-for-team abort is recorded as one error: *)
(* after an abort for a failed fetch, and after an abort for a failed      *)
(* backup with deleteMembers in a live run, errors has exactly one entry.  *)
(***************************************************************************)
BackupAborted ==
  InMigrate /\ SaveFailed /\ options.deleteMembers /\ Live /\ pc = "return"

FetchAborted == InMigrate /\ FetchRejected /\ pc = "return"

C20_AbortIsOneError ==
  (FetchAborted \/ BackupAborted) => Len(result.errors) = 1

(***************************************************************************)
(* C20 (amended): an abort for a failed fetch is recorded as exactly one   *)
(* error; an abort for a failed backup with deleteMembers in a live run is *)
(* recorded as exactly two: the backup failure, then the abort error.      *)
(***************************************************************************)
C20_AbortErrors ==
  /\ FetchAborted => Len(result.errors) = 1
  /\ BackupAborted
     => /\ Len(result.errors) = 2
        /\ result.errors[1][1] = "Failed to create backup: "
        /\ result.errors[2] = AbortError

C20_Witness ==
  /\ BackupAborted
  /\ Len(result.errors) = 2 /\ result.errors[2] = AbortError
  /\ Len(members) = MaxMembers

(***************************************************************************)
(* C21: ordering backup -> mutate -> invite.  In every run of migrateTeam   *)
(* the fetch precedes the save attempt and the save attempt precedes every *)
(* deleteMember, updateMember and inviteMember call of the team; no        *)
(* modification call precedes the backup step: where the gate applies, a   *)
(* modification call is issued only after the save was attempted.          *)
(***************************************************************************)
ModificationCalls == {i \in TeamCalls : calls[i].op \in MutatingOps}

C21_BackupBeforeMutation ==
  InMigrate
  => /\ \A s \in SaveCalls :
          /\ \E f \in FetchCalls : f < s
          /\ \A i \in ModificationCalls : s < i
     /\ \A f \in FetchCalls, i \in ModificationCalls : f < i
     /\ pc = "backup" => ModificationCalls = {}
     /\ (options.backupEnabled /\ ModificationCalls # {}) => SaveCalls # {}

C21_Witness ==
  /\ InMigrate /\ Live /\ pc = "return"
  /\ Len(calls) >= 4
  /\ calls[1].op = "getMembers" /\ calls[2].op = "save"
  /\ calls[3].op = "deleteMember" /\ calls[4].op = "inviteMember"

(***************************************************************************)
(* C22: request identity.  The updateMember request of a member carries    *)
(* the member's own subject, teamId, isTeamAdmin and full project list,    *)
(* with name = 'OBSOLETE - ' + original name; the inviteMember request     *)
(* issued for the same member (after a mark-obsolete or a delete, and in   *)
(* restore) carries the member's original email and un-prefixed name,      *)
(* isTeamAdmin, the same project list and sendEmail = true.                *)
(***************************************************************************)
\* The member as the vendor (or the snapshot) delivered it.
Original(subject) == CHOOSE m \in Range(MemberPool) : m.subject = subject

\* The request names the team the driver is at.
SentForTeamInFlight(q) ==
  /\ q.teamId \in Range(teamConfigs)
  /\ teamIdx <= Len(teamConfigs) => q.teamId = teamConfig

C22_RequestIdentity ==
  /\ \A i \in DOMAIN calls :
       LET o == Original(calls[i].about)
           q == calls[i].request
       IN /\ calls[i].op = "updateMember"
             => /\ q.identity_subject = o.subject
                /\ SentForTeamInFlight(q)
                /\ q.isAdmin = o.isTeamAdmin
                /\ q.name = <<"OBSOLETE - ", o.name>>
                /\ Len(q.projects) = Len(o.projects)
                /\ \A j \in DOMAIN o.projects :
                     /\ q.projects[j].projectId = o.projects[j].projectId
                     /\ q.projects[j].roles = o.projects[j].roles
                     /\ q.projects[j].permissions = o.projects[j].customPermissions
          /\ calls[i].op = "inviteMember"
             => /\ q.email = o.email
                /\ q.name = <<o.name>>
                /\ q.isAdmin = o.isTeamAdmin
                /\ SentForTeamInFlight(q)
                /\ q.sendEmail
                /\ Len(q.projects) = Len(o.projects)
                /\ \A j \in DOMAIN o.projects :
                     /\ q.projects[j].projectId = o.projects[j].projectId
                     /\ q.projects[j].roles = o.projects[j].roles
                     /\ q.projects[j].permissions = o.projects[j].customPermissions
  /\ \A i, j \in DOMAIN calls :
       (calls[i].op = "updateMember" /\ calls[j].op = "inviteMember"
        /\ calls[i].about = calls[j].about)
       => /\ i < j
          /\ calls[j].request.projects = calls[i].request.projects
  /\ \A k \in DOMAIN members : members[k] = Original(members[k].subject)

C22_Witness ==
  /\ InMigrate /\ Live /\ pc = "return"
  /\ \E i, j \in DOMAIN calls :
       /\ calls[i].op = "updateMember" /\ calls[j].op = "inviteMember"
       /\ calls[i].about = "s3" /\ calls[j].about = "s3"
       /\ calls[i].request.name = <<"OBSOLETE - ", "Cy">>
       /\ calls[j].request.name = <<"Cy">>
       /\ Len(calls[j].request.projects) = 2

(***************************************************************************)
(* C23 (as stated): the status governs success as 2xx/3xx.  A delete,      *)
(* update or invite response whose status lies in 300..399 is treated as a *)
(* success (its counter is incremented and no error is appended), exactly  *)
(* like a status in 200..299; only statuses outside 200..399 are recorded  *)
(* as failures.                                                            *)
(***************************************************************************)
\* The step answers a live delete, update or invite call of migrateTeam.
AnsweredCall ==
  /\ InMigrate /\ Len(calls') = Len(calls) + 1
  /\ calls'[Len(calls')].op \in MutatingOps
  /\ calls'[Len(calls')].kind = "response"

TreatedAsSuccess(c) ==
  /\ Counter(result', c.op) = Counter(result, c.op) + 1
  /\ result'.errors = result.errors

RecordedAsFailure(c) ==
  /\ Counter(result', c.op) = Counter(result, c.op)
  /\ Len(result'.errors) = Len(result.errors) + 1
  /\ SubSeq(result'.errors, 1, Len(result.errors)) = result.errors
  /\ result'.errors[Len(result'.errors)][3] = StatusText(c.status)

C23_Step_2xx3xx ==
  AnsweredCall
  => LET c == calls'[Len(calls')]
     IN /\ c.status \in 200..399 => TreatedAsSuccess(c)
        /\ c.status \notin 200..399 => RecordedAsFailure(c)

C23_SuccessIs2xx3xx == [][C23_Step_2xx3xx]_vars

(***************************************************************************)
(* C23 (amended): the status governs success as 2xx only.  A delete,       *)
(* update or invite response whose status lies in 300..399 is recorded as  *)
(* a failure (counter unchanged, one error appended), exactly like a       *)
(* status of 400 or more; only statuses in 200..299 are successes.         *)
(***************************************************************************)
C23_Step_2xx ==
  AnsweredCall
  => LET c == calls'[Len(calls')]
     IN /\ c.status \in 300..399 => RecordedAsFailure(c)
        /\ TreatedAsSuccess(c) <=> c.status \in 200..299
        /\ RecordedAsFailure(c) <=> c.status \notin 200..299

C23_SuccessIs2xx == [][C23_Step_2xx]_vars

C23_Witness ==
  /\ InMigrate /\ Live /\ pc = "return"
  /\ \E i \in TeamCalls :
       /\ calls[i].op = "inviteMember"
       /\ calls[i].kind = "response" /\ calls[i].status = 302
       /\ <<"Failed to send invitation to ", Original(calls[i].about).email,
            "Found">> \in Range(result.errors)
  /\ result.invitationsSent = 0

(***************************************************************************)
(* C24: within a team, members are processed strictly sequentially in the  *)
(* order returned by the fetch: every call issued for member i (its mutate *)
(* call, then its invite call) completes before any call for member i+1 is *)
(* issued, and calls of two members never interleave; the same order holds *)
(* for a live restore over the loaded sequence.                            *)
(***************************************************************************)
MemberCalls == {i \in DOMAIN calls : calls[i].op \in MutatingOps}

\* Position of a member in the fetched (or loaded) sequence.
MemberIndex(subject) ==
  CHOOSE k \in DOMAIN members : members[k].subject = subject

C24_MembersInFetchOrder ==
  /\ \A i \in MemberCalls :
       /\ \E k \in DOMAIN members : members[k].subject = calls[i].about
       /\ \/ MemberIndex(calls[i].about) < idx
          \/ /\ MemberIndex(calls[i].about) = idx
             /\ pc = "invite" /\ calls[i].op \in MutateOps
  /\ \A i, j \in MemberCalls :
       i < j
       => /\ MemberIndex(calls[i].about) <= MemberIndex(calls[j].about)
          /\ calls[i].about = calls[j].about
             => /\ calls[i].op \in MutateOps /\ calls[j].op = "inviteMember"
                /\ j = i + 1
  /\ restoreFrom => \A i \in MemberCalls : calls[i].op = "inviteMember"

C24_Witness ==
  /\ InMigrate /\ Live /\ pc = "return" /\ Len(members) = MaxMembers
  /\ Cardinality(MemberCalls) = 2 * MaxMembers
  /\ \A k \in DOMAIN members :
       \E i \in MemberCalls :
          /\ calls[i].op = "updateMember" /\ calls[i].about = members[k].subject
          /\ calls[i + 1].op = "inviteMember"
          /\ calls[i + 1].about = members[k].subject

C24_WitnessRestore ==
  /\ restoreFrom /\ Live /\ pc = "return" /\ Len(members) = MaxMembers
  /\ Cardinality(MemberCalls) = MaxMembers

(***************************************************************************)
(* C25: the driver processes every team of the configured list exactly     *)
(* once, in list order, one after another; an aborted or faulted team does *)
(* not stop the batch; each team's MigrationResult starts from zero        *)
(* counters, backupCreated = false and an empty errors list, and no        *)
(* counter or error of one team appears in another team's result.          *)
(***************************************************************************)
TeamCallsOf(t) == {i \in DOMAIN calls : calls[i].request.teamId = t}

TeamIndex(t) == CHOOSE k \in DOMAIN teamConfigs : teamConfigs[k] = t

\* A call whose outcome migrateTeam records as an error.
FailedCall(c) ==
  CASE c.op = "getMembers" -> c.kind = "fault" \/ c.status # 200
    [] c.op = "save"       -> c.kind # "ok"
    [] OTHER               -> c.kind = "fault" \/ c.status \notin 200..299

SucceededCalls(t, op) ==
  {i \in TeamCallsOf(t) : /\ calls[i].op = op /\ calls[i].kind = "response"
                          /\ calls[i].status \in 200..299}

\* The result holds what the calls of its own team produced, nothing else.
OwnOutcomesOnly(res) ==
  LET t == res.teamId
      failed == {i \in TeamCallsOf(t) : FailedCall(calls[i])}
      aborts == IF AbortError \in Range(res.errors) THEN 1 ELSE 0
  IN /\ Len(res.errors) = Cardinality(failed) + aborts
     /\ res.backupCreated <=>
          \E i \in TeamCallsOf(t) : calls[i].op = "save" /\ calls[i].kind = "ok"
     /\ Live => \A op \in MutatingOps :
                  Counter(res, op) = Cardinality(SucceededCalls(t, op))
     /\ res.skippedMembers + res.invitationsSent <= res.membersFound
     /\ res.membersFound <= MaxTeamMembers

C25_TeamsIndependent ==
  /\ teamIdx \in 1..(Len(teamConfigs) + 1)
  /\ Len(results) = teamIdx - 1
  /\ \A k \in DOMAIN results :
       results[k].teamId = teamConfigs[k] /\ OwnOutcomesOnly(results[k])
  /\ pc # "driver" => result.teamId = teamConfig /\ OwnOutcomesOnly(result)
  /\ pc = "fetch" => result = EmptyResult(teamConfig)
  /\ \A i, j \in DOMAIN calls :
       i < j => /\ TeamIndex(calls[i].request.teamId) <=
                     TeamIndex(calls[j].request.teamId)
                /\ ~(calls[i].op = "getMembers" /\ calls[j].op = "getMembers"
                     /\ calls[i].request.teamId = calls[j].request.teamId)
  /\ \A i \in DOMAIN calls :
       TeamIndex(calls[i].request.teamId) <= teamIdx

C25_Witness ==
  /\ pc = "driver" /\ teamIdx = Len(teamConfigs) + 1 /\ Len(teamConfigs) = 2
  /\ Live /\ options.deleteMembers
  /\ AbortError \in Range(results[1].errors)
  /\ results[2].errors = <<>>
  /\ results[2].membersDeleted = 1 /\ results[2].invitationsSent = 1
  /\ results[2].backupCreated

(***************************************************************************)
(* C26: the errors sequence of a MigrationResult is append-only and in     *)
(* discovery order: during migrateTeam no entry is removed or reordered,   *)
(* any backup error precedes every per-member error, for members i < j in  *)
(* fetch order every error about i precedes every error about j, and       *)
(* within one member the mutate error precedes the invite error.           *)
(***************************************************************************)
MutateErrors == {"Failed to delete ", "Failed to mark as obsolete "}
InviteErrors == {"Failed to send invitation to ", "Error processing member "}

\* The place of an error in the order of discovery: the fetch and backup
\* steps first, then two places per member in fetch order.
DiscoveryRank(e) ==
  LET k == CHOOSE n \in DOMAIN members : members[n].email = e[2]
  IN CASE e[1] \in MutateErrors -> 2 * k
       [] e[1] \in InviteErrors -> 2 * k + 1
       [] e = AbortError        -> 1
       [] OTHER                 -> 0

C26_Ordered ==
  InMigrate
  => \A a, b \in DOMAIN result.errors :
       a < b => DiscoveryRank(result.errors[a]) < DiscoveryRank(result.errors[b])

C26_AppendOnly ==
  (InMigrate /\ pc # "driver")
  => /\ Len(result'.errors) >= Len(result.errors)
     /\ SubSeq(result'.errors, 1, Len(result.errors)) = result.errors

C26_ErrorsInDiscoveryOrder == []C26_Ordered /\ [][C26_AppendOnly]_vars

C26_Witness ==
  /\ InMigrate /\ Live /\ pc = "return" /\ Len(members) = MaxMembers
  /\ Len(result.errors) = 4
  /\ result.errors[1][1] = "Failed to create backup: "
  /\ result.errors[2] = <<"Failed to mark as obsolete ", members[1].email, "Forbidden">>
  /\ result.errors[3] = <<"Failed to send invitation to ", members[1].email, "Found">>
  /\ result.errors[4] = <<"Error processing member ", members[3].email, "Network Error">>

(***************************************************************************)
(* C27: backup gate.  migrateTeam invokes the snapshot save at most once   *)
(* per run, and invokes it if and only if the fetch returned status 200,   *)
(* backup.enabled is true and at least one member was found, whatever      *)
(* dryRun, markObsolete and deleteMembers are; when the gate is not taken  *)
(* backupCreated is false and backupPath is absent, and backupPath is      *)
(* present only when backupCreated is true.                                *)
(***************************************************************************)
GateCondition == FetchSucceeded /\ options.backupEnabled /\ Len(members) > 0

C27_BackupGate ==
  InMigrate
  => /\ Cardinality(SaveCalls) <= 1
     /\ pc \in {"fetch", "backup"} => SaveCalls = {}
     /\ pc = "backup" <=> (GateCondition /\ SaveCalls = {})
     /\ pc \notin {"fetch", "backup"} => (SaveCalls # {} <=> GateCondition)
     /\ SaveCalls = {}
        => ~result.backupCreated /\ result.backupPath = Undefined
     /\ result.backupPath # Undefined => result.backupCreated
     /\ result.backupCreated
        <=> \E i \in SaveCalls : calls[i].kind = "ok"
     /\ \A i \in SaveCalls : calls[i].request.members = members

C27_Witness ==
  /\ InMigrate /\ options.dryRun /\ pc = "return"
  /\ ~options.deleteMembers /\ ~options.markObsolete
  /\ Cardinality(SaveCalls) = 1
  /\ result.backupCreated /\ result.backupPath # Undefined
  /\ backupFile.kind = "members" /\ Len(backupFile.members) = MaxMembers

(***************************************************************************)
(* C28: convertMemberProjectsToInvites is a pure mapping: one              *)
(* ProjectInvite per key of the member's projects map (an empty list for a *)
(* member with zero projects), each carrying that project's id, roles and  *)
(* customPermissions, with useCustom true if and only if customPermissions *)
(* is present and non-empty; the member is not modified, and the invite    *)
(* and update requests of one member carry the same project list.          *)
(***************************************************************************)
\* The ProjectInvite expected for one entry of the projects map.
IsInviteOf(invite, entry) ==
  /\ invite.projectId = entry.projectId
  /\ invite.roles = entry.roles
  /\ invite.hasPermissions = entry.hasCustom
  /\ invite.permissions = entry.customPermissions
  /\ invite.useCustom <=> (entry.hasCustom /\ entry.customPermissions # <<>>)

RequestsWithProjects ==
  {i \in DOMAIN calls : calls[i].op \in {"updateMember", "inviteMember"}}

C28_ProjectsMapping ==
  /\ \A i \in RequestsWithProjects :
       LET sent == calls[i].request.projects
           held == Original(calls[i].about).projects
       IN /\ DOMAIN sent = DOMAIN held
          /\ \A j \in DOMAIN held : IsInviteOf(sent[j], held[j])
          /\ held = <<>> => sent = <<>>
          /\ \A j, l \in DOMAIN sent :
               sent[j].projectId = sent[l].projectId => j = l
  /\ \A i, j \in RequestsWithProjects :
       calls[i].about = calls[j].about
       => calls[i].request.projects = calls[j].request.projects
  /\ \A i \in RequestsWithProjects, k \in DOMAIN members :
       members[k].subject = calls[i].about
       => members[k].projects = Original(calls[i].about).projects

C28_Witness ==
  /\ InMigrate /\ Live /\ pc = "return"
  /\ \E i, j, l \in RequestsWithProjects :
       /\ calls[i].about = "s1" /\ calls[i].request.projects = <<>>
       /\ calls[j].about = "s2" /\ calls[j].request.projects[1].useCustom
       /\ calls[l].about = "s3" /\ calls[l].op = "updateMember"
       /\ Len(calls[l].request.projects) = 2
       /\ calls[l].request.projects[2].hasPermissions
       /\ ~calls[l].request.projects[2].useCustom
       /\ ~calls[l].request.projects[1].hasPermissions

(***************************************************************************)
(* C29: no rollback or compensation.  In a live run with deleteMembers =   *)
(* true, when a member's delete call succeeds and the following invite     *)
(* call for that member fails (failure status or fault), membersDeleted    *)
(* stays incremented, one error is recorded for that member, no further    *)
(* call is issued for that member and the run continues with the next      *)
(* member.                                                                 *)
(***************************************************************************)
\* Members whose deletion succeeded and whose invitation failed.
DeletedNotReinvited ==
  {k \in DOMAIN members :
     /\ \E i \in CallsAbout(members[k].subject, {"deleteMember"}) :
          calls[i].kind = "response" /\ calls[i].status \in 200..299
     /\ \E i \in CallsAbout(members[k].subject, {"inviteMember"}) :
          calls[i].kind = "fault" \/ calls[i].status \notin 200..299}

ErrorsAbout(k) ==
  {e \in DOMAIN result.errors :
     /\ result.errors[e][1] \in {"Failed to delete ", "Failed to mark as obsolete ",
                                 "Failed to send invitation to ",
                                 "Error processing member "}
     /\ result.errors[e][2] = members[k].email}

C29_NoRollback ==
  (InMigrate /\ Live /\ options.deleteMembers)
  => /\ result.membersDeleted =
          Cardinality({i \in TeamCalls : /\ calls[i].op = "deleteMember"
                                         /\ calls[i].kind = "response"
                                         /\ calls[i].status \in 200..299})
     /\ \A k \in DeletedNotReinvited :
          /\ k \in Processed
          /\ result.membersDeleted >= 1
          /\ Cardinality(CallsAbout(members[k].subject, MutatingOps)) = 2
          /\ Cardinality(ErrorsAbout(k)) = 1
          /\ pc = "return"
             => /\ idx = Len(members) + 1
                /\ \A n \in NotIgnored(DOMAIN members) :
                     CallsAbout(members[n].subject, {"deleteMember"}) # {}

C29_Witness ==
  /\ InMigrate /\ Live /\ options.deleteMembers /\ pc = "return"
  /\ Len(members) = MaxMembers
  /\ DeletedNotReinvited = {1, 2}
  /\ result.membersDeleted = 3 /\ result.invitationsSent = 1
  /\ Len(result.errors) = 2
  /\ \E i \in CallsAbout(members[1].subject, {"inviteMember"}) :
       calls[i].kind = "fault"
  /\ \E i \in CallsAbout(members[2].subject, {"inviteMember"}) :
       calls[i].status = 403

(***************************************************************************)
(* C30 (as stated): counter accounting, in every reachable state of        *)
(* migrateTeam and in the returned result, in dry-run and live mode:       *)
(* skippedMembers + invitationsSent <= membersFound; membersDeleted and    *)
(* membersMarkedObsolete are each <= membersFound - skippedMembers and are *)
(* never both positive; counters never decrease; and in a run that is not  *)
(* aborted every fetched member is accounted for exactly once as either    *)
(* skipped, invited, or carrying at least one error.                       *)
(***************************************************************************)
CounterBounds ==
  /\ result.skippedMembers + result.invitationsSent <= result.membersFound
  /\ result.membersDeleted <= result.membersFound - result.skippedMembers
  /\ result.membersMarkedObsolete <= result.membersFound - result.skippedMembers
  /\ ~(result.membersDeleted > 0 /\ result.membersMarkedObsolete > 0)

CountersNeverDecrease ==
  (InMigrate /\ pc # "driver")
  => /\ result'.membersFound >= result.membersFound
     /\ result'.skippedMembers >= result.skippedMembers
     /\ result'.membersDeleted >= result.membersDeleted
     /\ result'.membersMarkedObsolete >= result.membersMarkedObsolete
     /\ result'.invitationsSent >= result.invitationsSent

\* The run went through the whole member loop.
CompletedRun ==
  /\ InMigrate /\ pc = "return" /\ FetchSucceeded
  /\ AbortError \notin Range(result.errors)

SkippedSet == DOMAIN members \ NotIgnored(DOMAIN members)

InvitedSet ==
  IF Live
  THEN {k \in DOMAIN members :
          \E i \in CallsAbout(members[k].subject, {"inviteMember"}) :
             calls[i].kind = "response" /\ calls[i].status \in 200..299}
  ELSE NotIgnored(DOMAIN members)

WithErrorSet == {k \in DOMAIN members : ErrorsAbout(k) # {}}

InCategories(k) ==
  Cardinality({c \in {"skipped", "invited", "error"} :
                 \/ c = "skipped" /\ k \in SkippedSet
                 \/ c = "invited" /\ k \in InvitedSet
                 \/ c = "error" /\ k \in WithErrorSet})

C30_ExactlyOneCategory ==
  /\ InMigrate => CounterBounds
  /\ CompletedRun => \A k \in DOMAIN members : InCategories(k) = 1

C30_AccountingAsStated ==
  []C30_ExactlyOneCategory /\ [][CountersNeverDecrease]_vars

(***************************************************************************)
(* C30 (amended): the same bounds and monotonicity; in a run that is not   *)
(* aborted every fetched member is skipped, invited or carries at least    *)
(* one error, each counter counts a member at most once, and a skipped     *)
(* member is neither invited nor in error; a member whose mutate call      *)
(* returned a failure status and whose invitation succeeded is both        *)
(* invited and carries an error.                                           *)
(***************************************************************************)
\* Members whose mutate call answered a failure status.
MutateRejected ==
  {k \in DOMAIN members :
     \E i \in CallsAbout(members[k].subject, MutateOps) :
        calls[i].kind = "response" /\ calls[i].status \notin 200..299}

C30_AtLeastOneCategory ==
  /\ InMigrate => CounterBounds
  /\ CompletedRun
     => /\ \A k \in DOMAIN members : InCategories(k) >= 1
        /\ SkippedSet \cap (InvitedSet \cup WithErrorSet) = {}
        /\ result.skippedMembers = Cardinality(SkippedSet)
        /\ result.invitationsSent = Cardinality(InvitedSet)
        /\ InvitedSet \cap WithErrorSet = InvitedSet \cap MutateRejected

C30_Accounting ==
  []C30_AtLeastOneCategory /\ [][CountersNeverDecrease]_vars

C30_Witness ==
  /\ CompletedRun /\ Live /\ Len(members) = MaxMembers
  /\ SkippedSet = {1}
  /\ 2 \in InvitedSet \cap WithErrorSet
  /\ 3 \in WithErrorSet \ InvitedSet
  /\ result.skippedMembers = 1 /\ result.invitationsSent = 1

(***************************************************************************)
(* C31: no retries and guaranteed completion.  Provided every transport    *)
(* call and the save return or raise, migrateTeam terminates and returns a *)
(* result after at most one getMembers call, at most one save and, for     *)
(* each fetched member, at most one mutate call (delete or update, never   *)
(* both) and at most one invite call; no failed call is re-issued.         *)
(* restoreFromBackup likewise terminates with at most one invite call per  *)
(* loaded member.                                                          *)
(***************************************************************************)
CallsOf(ops) == {i \in DOMAIN calls : calls[i].op \in ops}

C31_NoRetry ==
  /\ \A t \in Range(teamConfigs) :
       /\ Cardinality({i \in CallsOf({"getMembers"}) :
                         calls[i].request.teamId = t}) <= 1
       /\ Cardinality({i \in CallsOf({"save"}) :
                         calls[i].request.teamId = t}) <= 1
  /\ \A m \in Range(MemberPool) :
       /\ Cardinality({i \in CallsOf(MutateOps) : calls[i].about = m.subject}) <= 1
       /\ Cardinality({i \in CallsOf({"inviteMember"}) :
                         calls[i].about = m.subject}) <= 1
  /\ \A i, j \in DOMAIN calls :
       (calls[i].op = calls[j].op /\ calls[i].about = calls[j].about) => i = j
  /\ \A i \in CallsOf(MutatingOps) :
       \E k \in DOMAIN members : members[k].subject = calls[i].about
  /\ Len(calls) <= 2 + 2 * Len(members)
  /\ restoreFrom => /\ CallsOf({"getMembers", "save"} \cup MutateOps) = {}
                    /\ Len(calls) <= Len(members)

\* The driver is past the last team and holds one result per team.
Terminated ==
  /\ pc = "driver" /\ teamIdx = Len(teamConfigs) + 1
  /\ Len(results) = Len(teamConfigs)

C31_TerminatesWithoutRetry == []C31_NoRetry /\ <>Terminated

C31_Witness ==
  /\ Terminated /\ InMigrate /\ Live /\ Len(members) = MaxMembers
  /\ Cardinality(CallsOf({"getMembers"})) = 1
  /\ Cardinality(CallsOf({"save"})) = 1 /\ SaveFailed
  /\ \E i \in CallsAbout(members[1].subject, MutateOps) : calls[i].kind = "fault"
  /\ \E i \in CallsAbout(members[2].subject, {"inviteMember"}) :
       calls[i].status = 403
  /\ \E i \in CallsAbout(members[3].subject, {"inviteMember"}) :
       calls[i].kind = "fault"
  /\ Len(calls) = 7

C31_WitnessRestore ==
  /\ Terminated /\ restoreFrom /\ Live /\ Len(members) = MaxMembers
  /\ Len(calls) = MaxMembers
  /\ \A i \in DOMAIN calls : calls[i].kind = "fault" \/ calls[i].status = 403

====
